---- MODULE Spec2Model ----
(***************************************************************************)
(* Model of the two Shopify webhook handlers of the metafield app:         *)
(*   products/update  (src/app/routes/webhooks.products.update.jsx)        *)
(*   products/create  (src/unnamed/part_000, lines 196-388)                *)
(* and of the settings upsert (src/unnamed/part_000, lines 19-43).         *)
(*                                                                         *)
(* Strings are sequences of one-character strings, so that parseFloat,     *)
(* toFixed and toUpperCase are computed and not assumed.  Numbers are      *)
(* exact rationals (or NaN / +-Infinity); IEEE rounding error of the       *)
(* doubles is not modelled.  An optional value is a tuple of length 0      *)
(* (null / undefined) or 1 (the value).                                    *)
(***************************************************************************)
EXTENDS Integers, Sequences, FiniteSets, TLC

\* ------------------------------------------------------------------------
\* Optional values
\* ------------------------------------------------------------------------
null == <<>>

Some(v) == <<v>>

\* ------------------------------------------------------------------------
\* Strings
\* ------------------------------------------------------------------------
Digits == <<"0", "1", "2", "3", "4", "5", "6", "7", "8", "9">>

IsDigit(c) == \E i \in 1..10 : Digits[i] = c

DigitVal(c) == (CHOOSE i \in 1..10 : Digits[i] = c) - 1

LowerCase == <<"a", "k", "o">>

UpperCase == <<"A", "K", "O">>

\* String.prototype.toUpperCase on one character
CharToUpper(c) ==
  IF \E i \in 1..Len(LowerCase) : LowerCase[i] = c
    THEN UpperCase[CHOOSE i \in 1..Len(LowerCase) : LowerCase[i] = c]
    ELSE c

\* a variant that leaves the case of the string as it is
toUpperCaseKeepsCase(s) == s

toUpperCase(s) == [i \in 1..Len(s) |-> CharToUpper(s[i])]

\* a JavaScript string is falsy exactly when it is empty
Truthy(opt) == opt # null /\ opt[1] # <<>>

\* ------------------------------------------------------------------------
\* Numbers: exact rationals n/d in lowest terms, NaN, +Infinity, -Infinity
\* ------------------------------------------------------------------------
RECURSIVE Gcd(_, _)
Gcd(a, b) == IF b = 0 THEN a ELSE Gcd(b, a % b)

Abs(a) == IF a < 0 THEN -a ELSE a

NaN == [k |-> "nan", n |-> 0, d |-> 1]

PosInf == [k |-> "inf", n |-> 1, d |-> 1]

NegInf == [k |-> "inf", n |-> -1, d |-> 1]

Rat(n, d) ==
  LET g == Gcd(Abs(n), Abs(d))
      s == IF d < 0 THEN -1 ELSE 1
  IN  [k |-> "fin", n |-> s * (n \div g), d |-> s * (d \div g)]

Num(i) == Rat(i, 1)

IsFinite(x) == x.k = "fin"

Sign(x) == IF x.n > 0 THEN 1 ELSE IF x.n < 0 THEN -1 ELSE 0

\* IEEE addition on the modelled values
Add(x, y) ==
  IF x.k = "nan" \/ y.k = "nan" THEN NaN
  ELSE IF x.k = "inf" /\ y.k = "inf" THEN (IF x.n = y.n THEN x ELSE NaN)
  ELSE IF x.k = "inf" THEN x
  ELSE IF y.k = "inf" THEN y
  ELSE LET g == Gcd(x.d, y.d)
       IN  Rat(x.n * (y.d \div g) + y.n * (x.d \div g), (x.d \div g) * y.d)

\* IEEE multiplication on the modelled values
Mul(x, y) ==
  IF x.k = "nan" \/ y.k = "nan" THEN NaN
  ELSE IF x.k = "inf" \/ y.k = "inf"
    THEN (IF Sign(x) * Sign(y) > 0 THEN PosInf
          ELSE IF Sign(x) * Sign(y) < 0 THEN NegInf ELSE NaN)
  ELSE LET g1 == Gcd(Abs(x.n), y.d)
           g2 == Gcd(Abs(y.n), x.d)
       IN  IF x.n = 0 \/ y.n = 0 THEN Rat(0, 1)
           ELSE Rat((x.n \div g1) * (y.n \div g2), (x.d \div g2) * (y.d \div g1))

\* IEEE division on the modelled values (x / 0 is an infinity, 0 / 0 is NaN)
Div(x, y) ==
  IF x.k = "nan" \/ y.k = "nan" THEN NaN
  ELSE IF x.k = "inf" /\ y.k = "inf" THEN NaN
  ELSE IF x.k = "inf" THEN (IF Sign(x) * Sign(y) < 0 THEN NegInf ELSE PosInf)
  ELSE IF y.k = "inf" THEN Num(0)
  ELSE IF y.n = 0
    THEN (IF x.n > 0 THEN PosInf ELSE IF x.n < 0 THEN NegInf ELSE NaN)
  ELSE LET g1 == Gcd(Abs(x.n), Abs(y.n))
           g2 == Gcd(y.d, x.d)
       IN  IF x.n = 0 THEN Rat(0, 1)
           ELSE Rat((x.n \div g1) * (y.d \div g2), (x.d \div g2) * (y.n \div g1))

\* x > y; any comparison with NaN is false
Gt(x, y) ==
  IF x.k = "nan" \/ y.k = "nan" THEN FALSE
  ELSE IF x.k = "inf" /\ y.k = "inf" THEN x.n > y.n
  ELSE IF x.k = "inf" THEN x.n > 0
  ELSE IF y.k = "inf" THEN y.n < 0
  ELSE LET g == Gcd(x.d, y.d)
       IN  x.n * (y.d \div g) > y.n * (x.d \div g)

RECURSIVE Pow10(_)
Pow10(e) == IF e = 0 THEN 1 ELSE 10 * Pow10(e - 1)

\* length of the longest prefix of s that consists of digits
RECURSIVE DigitPrefixLen(_)
DigitPrefixLen(s) ==
  IF s # <<>> /\ IsDigit(Head(s)) THEN 1 + DigitPrefixLen(Tail(s)) ELSE 0

\* value of a digit string read as a decimal integer
RECURSIVE DigitsVal(_)
DigitsVal(s) ==
  IF s = <<>> THEN 0
  ELSE 10 * DigitsVal(SubSeq(s, 1, Len(s) - 1)) + DigitVal(s[Len(s)])

\* parseFloat: optional sign, the longest prefix digits[.digits] or .digits;
\* NaN when no such prefix exists (exponents and "Infinity" are outside the
\* alphabet of the model)
parseFloat(s) ==
  LET neg   == s # <<>> /\ Head(s) = "-"
      body  == IF s # <<>> /\ Head(s) \in {"-", "+"} THEN Tail(s) ELSE s
      il    == DigitPrefixLen(body)
      rest  == SubSeq(body, il + 1, Len(body))
      dot   == rest # <<>> /\ Head(rest) = "."
      fl    == IF dot THEN DigitPrefixLen(Tail(rest)) ELSE 0
      ipart == DigitsVal(SubSeq(body, 1, il))
      fpart == DigitsVal(SubSeq(rest, 2, fl + 1))
      mag   == Rat(ipart * Pow10(fl) + fpart, Pow10(fl))
  IN  IF il = 0 /\ fl = 0 THEN NaN
      ELSE IF neg THEN Mul(Num(-1), mag) ELSE mag

\* decimal digits of a natural number
RECURSIVE NatToStr(_)
NatToStr(i) ==
  IF i < 10 THEN <<Digits[i + 1]>>
  ELSE Append(NatToStr(i \div 10), Digits[(i % 10) + 1])

\* Number.prototype.toFixed(2): the nearest multiple of 0.01, the larger one
\* on a tie, computed on the magnitude; "NaN" and "Infinity" for non-finite
toFixed2(x) ==
  IF x.k = "nan" THEN <<"N", "a", "N">>
  ELSE IF x.k = "inf"
    THEN (IF x.n < 0 THEN <<"-">> ELSE <<>>)
           \o <<"I", "n", "f", "i", "n", "i", "t", "y">>
  ELSE LET m     == Abs(x.n)
           whole == m \div x.d
           r     == m % x.d
           h     == (2 * 100 * r + x.d) \div (2 * x.d)
           cents == whole * 100 + h
       IN  (IF x.n < 0 THEN <<"-">> ELSE <<>>)
             \o NatToStr(cents \div 100) \o <<".">>
             \o <<Digits[((cents % 100) \div 10) + 1], Digits[(cents % 10) + 1]>>

\* ------------------------------------------------------------------------
\* Bounds of the model
\* ------------------------------------------------------------------------
\* at most this many entries of one metafieldsSet batch are rejected by the
\* remote (besides the case that the whole batch is rejected)
MaxRejected == 1

\* at most this many changes of the settings and of the item's cost inputs
\* happen while the notifications are handled
MaxEdits == 1

Shops == {"shop-a"}

Products == {1}

\* the shop whose catalog holds the product: products 1 and 2 are of shop-a,
\* product 3 is of shop-b
ShopOf(p) == IF p = 3 THEN "shop-b" ELSE "shop-a"

Runs == {"r1", "r2"}

\* the invocations are interchangeable: r2 is used once r1 is in use
Earlier(r) == IF r = "r2" THEN {"r1"} ELSE {}

Str10 == <<"1", "0">>

Str2 == <<"2">>

StrBad == <<"a", "k">>

StrOoakMixed == <<"O", "o", "a", "k">>

StrNormalDefault == <<"N", "O", "R", "M", "A", "L">>

\* values an external actor stores in the item's input attributes
MaterialCostsValues == {null, Some(Str10), Some(StrBad)}

HoursWorkedValues == {null, Some(Str2)}

RarityValues == {null, Some(StrOoakMixed)}

ConfigFields ==
  {"etsyDiscount", "shipping", "vat", "normalMultiplier", "ooakMultiplier",
   "etsyMarkupProfit", "hourlyRate", "rarity"}

\* the settings forms that are submitted: an empty form, the configuration
\* of the worked example, and one with a zero and a default rarity
EmptyForm == [f \in ConfigFields |-> <<>>]

FormA ==
  [EmptyForm EXCEPT !.etsyDiscount = <<"1", "0">>, !.shipping = <<"5">>,
                    !.vat = <<"2", "1">>, !.normalMultiplier = <<"1", ".", "2">>,
                    !.etsyMarkupProfit = <<"2", "0">>,
                    !.hourlyRate = <<"1", "5">>]

FormZero ==
  [EmptyForm EXCEPT !.etsyDiscount = <<"0">>, !.rarity = <<"o", "o", "a", "k">>]

Forms == {EmptyForm, FormA, FormZero}

\* ------------------------------------------------------------------------
\* Metafield keys
\* ------------------------------------------------------------------------
InputKeys == {"material_costs", "hours_worked", "rarity"}

DerivedKeys == {"total_cost", "etsy_price", "etsy_fees", "market_price"}

SeedKeys ==
  {"etsy_discount", "shipping", "vat", "normal_multiplier", "ooak_multiplier",
   "rarity", "etsy_markup_profit", "hourly_rate"}

Keys == InputKeys \cup DerivedKeys \cup SeedKeys

\* ------------------------------------------------------------------------
\* Settings: the record the settings action upserts
\* ------------------------------------------------------------------------
\* formData.get(name) || null
OrNull(s) == IF s = <<>> THEN null ELSE Some(s)

SettingsData(form) == [f \in ConfigFields |-> OrNull(form[f])]

\* ------------------------------------------------------------------------
\* products/update: extraction and calculation
\* ------------------------------------------------------------------------
\* field ? parseFloat(field.node.value) : null
ExtractNumber(metafields, key) ==
  IF metafields[key] # null THEN Some(parseFloat(metafields[key][1])) ELSE null

\* rarityField?.node.value || "NORMAL"
ExtractRarity(metafields) ==
  IF Truthy(metafields["rarity"]) THEN metafields["rarity"][1]
  ELSE StrNormalDefault

\* a variant that takes the fallback for a stored zero as well
ParseDefaultZeroIsAbsent(defaults, f, fallback) ==
  IF Truthy(defaults[f]) /\ parseFloat(defaults[f][1]) # Num(0)
    THEN parseFloat(defaults[f][1]) ELSE fallback

\* defaults.f ? parseFloat(defaults.f) : fallback
ParseDefault(defaults, f, fallback) ==
  IF Truthy(defaults[f]) THEN parseFloat(defaults[f][1]) ELSE fallback

FallbackNormalMultiplier == Rat(12, 10)

FallbackOoakMultiplier == Num(2)

EtsyFeeRate == Rat(95, 1000)

EtsyFeeFlat == Rat(20, 100)

MarketFactor == Rat(105, 100)

Pct(x) == Add(Num(1), Div(x, Num(100)))

\* a variant of the calculation that reports the fee left after the discount
CalculateFeeAfterDiscount(materialCosts, hoursWorked, productRarity, defaults) ==
  LET hourlyRate       == ParseDefault(defaults, "hourlyRate", Num(0))
      markup           == ParseDefault(defaults, "etsyMarkupProfit", Num(0))
      vat              == ParseDefault(defaults, "vat", Num(0))
      shipping         == ParseDefault(defaults, "shipping", Num(0))
      discount         == ParseDefault(defaults, "etsyDiscount", Num(0))
      normalMultiplier == ParseDefault(defaults, "normalMultiplier",
                                       FallbackNormalMultiplier)
      ooakMultiplier   == ParseDefault(defaults, "ooakMultiplier",
                                       FallbackOoakMultiplier)
      rarityMultiplier == IF toUpperCase(productRarity) = <<"O", "O", "A", "K">>
                            THEN ooakMultiplier ELSE normalMultiplier
      labor            == Mul(hoursWorked, hourlyRate)
      totalCost        == Add(materialCosts, labor)
      base             == Mul(Add(materialCosts, labor), Pct(markup))
      rarityAdjusted   == Mul(base, rarityMultiplier)
      subtotal         == Add(rarityAdjusted, shipping)
      priceWithVat     == Mul(subtotal, Pct(vat))
      etsyFeesAmount   == Add(Mul(priceWithVat, EtsyFeeRate), EtsyFeeFlat)
      preDiscount      == Add(priceWithVat, etsyFeesAmount)
      finalEtsyPrice   == IF Gt(discount, Num(0))
                            THEN Div(preDiscount,
                                     Add(Num(1), Mul(Num(-1), Div(discount, Num(100)))))
                            ELSE preDiscount
      marketBase       == Mul(Add(materialCosts, labor), MarketFactor)
      marketPrice      == Mul(marketBase, rarityMultiplier)
  IN  [totalCost |-> totalCost, finalEtsyPrice |-> finalEtsyPrice,
       etsyFees |-> Add(finalEtsyPrice, Mul(Num(-1), priceWithVat)),
       marketPrice |-> marketPrice,
       rarityMultiplier |-> rarityMultiplier, priceWithVat |-> priceWithVat,
       discount |-> discount]

\* a variant of the calculation that takes the fee from the price before VAT
CalculateFeeBeforeVat(materialCosts, hoursWorked, productRarity, defaults) ==
  LET hourlyRate       == ParseDefault(defaults, "hourlyRate", Num(0))
      markup           == ParseDefault(defaults, "etsyMarkupProfit", Num(0))
      vat              == ParseDefault(defaults, "vat", Num(0))
      shipping         == ParseDefault(defaults, "shipping", Num(0))
      discount         == ParseDefault(defaults, "etsyDiscount", Num(0))
      normalMultiplier == ParseDefault(defaults, "normalMultiplier",
                                       FallbackNormalMultiplier)
      ooakMultiplier   == ParseDefault(defaults, "ooakMultiplier",
                                       FallbackOoakMultiplier)
      rarityMultiplier == IF toUpperCase(productRarity) = <<"O", "O", "A", "K">>
                            THEN ooakMultiplier ELSE normalMultiplier
      labor            == Mul(hoursWorked, hourlyRate)
      totalCost        == Add(materialCosts, labor)
      base             == Mul(Add(materialCosts, labor), Pct(markup))
      rarityAdjusted   == Mul(base, rarityMultiplier)
      subtotal         == Add(rarityAdjusted, shipping)
      priceWithVat     == Mul(subtotal, Pct(vat))
      etsyFeesAmount   == Add(Mul(subtotal, EtsyFeeRate), EtsyFeeFlat)
      preDiscount      == Add(priceWithVat, etsyFeesAmount)
      finalEtsyPrice   == IF Gt(discount, Num(0))
                            THEN Div(preDiscount,
                                     Add(Num(1), Mul(Num(-1), Div(discount, Num(100)))))
                            ELSE preDiscount
      marketBase       == Mul(Add(materialCosts, labor), MarketFactor)
      marketPrice      == Mul(marketBase, rarityMultiplier)
  IN  [totalCost |-> totalCost, finalEtsyPrice |-> finalEtsyPrice,
       etsyFees |-> etsyFeesAmount, marketPrice |-> marketPrice,
       rarityMultiplier |-> rarityMultiplier, priceWithVat |-> priceWithVat,
       discount |-> discount]

\* the values of lines 86-125 of the update handler
Calculate(materialCosts, hoursWorked, productRarity, defaults) ==
  LET hourlyRate       == ParseDefault(defaults, "hourlyRate", Num(0))
      markup           == ParseDefault(defaults, "etsyMarkupProfit", Num(0))
      vat              == ParseDefault(defaults, "vat", Num(0))
      shipping         == ParseDefault(defaults, "shipping", Num(0))
      discount         == ParseDefault(defaults, "etsyDiscount", Num(0))
      normalMultiplier == ParseDefault(defaults, "normalMultiplier",
                                       FallbackNormalMultiplier)
      ooakMultiplier   == ParseDefault(defaults, "ooakMultiplier",
                                       FallbackOoakMultiplier)
      rarityMultiplier == IF toUpperCase(productRarity) = <<"O", "O", "A", "K">>
                            THEN ooakMultiplier ELSE normalMultiplier
      labor            == Mul(hoursWorked, hourlyRate)
      totalCost        == Add(materialCosts, labor)
      base             == Mul(Add(materialCosts, labor), Pct(markup))
      rarityAdjusted   == Mul(base, rarityMultiplier)
      subtotal         == Add(rarityAdjusted, shipping)
      priceWithVat     == Mul(subtotal, Pct(vat))
      etsyFeesAmount   == Add(Mul(priceWithVat, EtsyFeeRate), EtsyFeeFlat)
      preDiscount      == Add(priceWithVat, etsyFeesAmount)
      finalEtsyPrice   == IF Gt(discount, Num(0))
                            THEN Div(preDiscount,
                                     Add(Num(1), Mul(Num(-1), Div(discount, Num(100)))))
                            ELSE preDiscount
      marketBase       == Mul(Add(materialCosts, labor), MarketFactor)
      marketPrice      == Mul(marketBase, rarityMultiplier)
  IN  [totalCost |-> totalCost, finalEtsyPrice |-> finalEtsyPrice,
       etsyFees |-> etsyFeesAmount, marketPrice |-> marketPrice,
       rarityMultiplier |-> rarityMultiplier, priceWithVat |-> priceWithVat,
       discount |-> discount]

Entry(productId, key, value, type) ==
  [ownerId |-> productId, namespace |-> "custom", key |-> key,
   value |-> value, type |-> type]

\* a variant of metafieldsToSet without the market_price entry
MetafieldsToSetThree(productId, materialCosts, hoursWorked, productRarity, defaults) ==
  LET c == Calculate(materialCosts, hoursWorked, productRarity, defaults)
  IN  << Entry(productId, "total_cost", toFixed2(c.totalCost), "number_decimal"),
         Entry(productId, "etsy_price", toFixed2(c.finalEtsyPrice), "number_decimal"),
         Entry(productId, "etsy_fees", toFixed2(c.etsyFees), "number_decimal") >>

\* a variant of metafieldsToSet that leaves out the values that are not numbers
MetafieldsToSetSkipsNaN(productId, materialCosts, hoursWorked, productRarity, defaults) ==
  LET c == Calculate(materialCosts, hoursWorked, productRarity, defaults)
      E(key, x) == IF x.k = "nan" THEN <<>>
                   ELSE <<Entry(productId, key, toFixed2(x), "number_decimal")>>
  IN  E("total_cost", c.totalCost) \o E("etsy_price", c.finalEtsyPrice)
        \o E("etsy_fees", c.etsyFees) \o E("market_price", c.marketPrice)

\* a variant that also writes the rarity it calculated with back to the item
MetafieldsToSetWithRarity(productId, materialCosts, hoursWorked, productRarity, defaults) ==
  LET c == Calculate(materialCosts, hoursWorked, productRarity, defaults)
  IN  << Entry(productId, "total_cost", toFixed2(c.totalCost), "number_decimal"),
         Entry(productId, "etsy_price", toFixed2(c.finalEtsyPrice), "number_decimal"),
         Entry(productId, "etsy_fees", toFixed2(c.etsyFees), "number_decimal"),
         Entry(productId, "market_price", toFixed2(c.marketPrice), "number_decimal"),
         Entry(productId, "rarity", productRarity, "single_line_text_field") >>

\* metafieldsToSet of the update handler
MetafieldsToSet(productId, materialCosts, hoursWorked, productRarity, defaults) ==
  LET c == Calculate(materialCosts, hoursWorked, productRarity, defaults)
  IN  << Entry(productId, "total_cost", toFixed2(c.totalCost), "number_decimal"),
         Entry(productId, "etsy_price", toFixed2(c.finalEtsyPrice), "number_decimal"),
         Entry(productId, "etsy_fees", toFixed2(c.etsyFees), "number_decimal"),
         Entry(productId, "market_price", toFixed2(c.marketPrice), "number_decimal") >>

\* ------------------------------------------------------------------------
\* products/create: the batch built from the stored defaults
\* ------------------------------------------------------------------------
\* the order and the keys of the eight "if (defaults.f) metafields.push" blocks
SeedOrder ==
  << [field |-> "etsyDiscount", key |-> "etsy_discount", type |-> "number_decimal"],
     [field |-> "shipping", key |-> "shipping", type |-> "number_decimal"],
     [field |-> "vat", key |-> "vat", type |-> "number_decimal"],
     [field |-> "normalMultiplier", key |-> "normal_multiplier", type |-> "number_decimal"],
     [field |-> "ooakMultiplier", key |-> "ooak_multiplier", type |-> "number_decimal"],
     [field |-> "rarity", key |-> "rarity", type |-> "single_line_text_field"],
     [field |-> "etsyMarkupProfit", key |-> "etsy_markup_profit", type |-> "number_decimal"],
     [field |-> "hourlyRate", key |-> "hourly_rate", type |-> "number_decimal"] >>

RECURSIVE SeedFrom(_, _, _)
SeedFrom(i, productId, defaults) ==
  IF i > Len(SeedOrder) THEN <<>>
  ELSE LET s == SeedOrder[i]
       IN  (IF Truthy(defaults[s.field])
              THEN <<Entry(productId, s.key, defaults[s.field][1], s.type)>>
              ELSE <<>>)
             \o SeedFrom(i + 1, productId, defaults)

\* a variant of metafieldsSetInput that renders every value with two decimals
MetafieldsSetInputReformatted(productId, defaults) ==
  LET b == SeedFrom(1, productId, defaults)
  IN  [i \in 1..Len(b) |-> [b[i] EXCEPT !.value = toFixed2(parseFloat(@))]]

\* metafieldsSetInput of the create handler
MetafieldsSetInput(productId, defaults) == SeedFrom(1, productId, defaults)

\* ------------------------------------------------------------------------
\* State
\* ------------------------------------------------------------------------
VARIABLES
  sessionStorage,     \* shop -> whether an offline session is stored
  metafieldDefaults,  \* shop -> null or the stored defaults record
  productMetafields,  \* product -> key -> null or the value (namespace custom)
  run,                \* handler invocation -> its position and local variables
  edits,              \* number of changes of settings and cost inputs so far
  last                \* product -> the update runs that read and wrote it last

vars == <<sessionStorage, metafieldDefaults, productMetafields, run, edits, last>>

\* a handler invocation before a notification is handed to it
IdleRun ==
  [pc |-> "idle", topic |-> "none", shop |-> "none", productId |-> 0,
   metafields |-> null, materialCosts |-> null, hoursWorked |-> null,
   productRarity |-> <<>>, defaults |-> null, metafieldsToSet |-> <<>>,
   applied |-> {}, responses |-> <<>>, calls |-> <<>>]

NoMetafields == [k \in Keys |-> null]

Init ==
  /\ sessionStorage \in [Shops -> BOOLEAN]
  /\ metafieldDefaults \in [Shops -> {null} \cup {Some(SettingsData(f)) : f \in Forms}]
  /\ productMetafields \in
       [Products -> {[NoMetafields EXCEPT !["material_costs"] = m,
                                          !["hours_worked"] = h,
                                          !["rarity"] = q] :
                       m \in MaterialCostsValues, h \in HoursWorkedValues,
                       q \in RarityValues}]
  /\ run = [r \in Runs |-> IdleRun]
  /\ edits = 0
  /\ last = [p \in Products |-> [reader |-> "none", writer |-> "none"]]

\* ------------------------------------------------------------------------
\* Environment
\* ------------------------------------------------------------------------
\* Changes of the settings and of the inputs are modelled while a run that
\* is being handled has still to read them: a change before the first
\* notification leads to a state Init already contains, and a change after
\* the last read is seen by no run.
WillReadDefaults(shop) ==
  \E r \in Runs :
    run[r].shop = shop /\ run[r].pc \in {"loadSession", "query", "findUnique"}

WillReadInputs(p) ==
  \E r \in Runs :
    /\ run[r].topic = "products/update"
    /\ run[r].productId = p
    /\ run[r].pc \in {"loadSession", "query"}

\* the settings action: the whole record of the shop is replaced
SaveSettings(shop, form) ==
  /\ metafieldDefaults' = [metafieldDefaults EXCEPT ![shop] = Some(SettingsData(form))]
  /\ metafieldDefaults'[shop] # metafieldDefaults[shop]
  /\ WillReadDefaults(shop)
  /\ edits < MaxEdits
  /\ edits' = edits + 1
  /\ UNCHANGED <<sessionStorage, productMetafields, run, last>>

\* the merchant edits one of the item's cost inputs in the shop admin
EditProductInput(p, key, value) ==
  /\ productMetafields[p][key] # value
  /\ productMetafields' = [productMetafields EXCEPT ![p][key] = value]
  /\ WillReadInputs(p)
  /\ edits < MaxEdits
  /\ edits' = edits + 1
  /\ UNCHANGED <<sessionStorage, metafieldDefaults, run, last>>

\* authenticate.webhook hands a verified notification to an invocation
Receive(r, topic, p) ==
  /\ run[r].pc = "idle"
  /\ \A q \in Earlier(r) : run[q].pc # "idle"
  /\ run' = [run EXCEPT ![r] =
       [IdleRun EXCEPT !.pc = "loadSession", !.topic = topic,
                       !.shop = ShopOf(p), !.productId = p]]
  /\ UNCHANGED <<sessionStorage, metafieldDefaults, productMetafields, edits, last>>

\* ------------------------------------------------------------------------
\* Steps shared by the two handlers
\* ------------------------------------------------------------------------
Called(rec, name) == [rec EXCEPT !.calls = Append(@, name)]

\* return new Response(null, { status: 200 })
Respond(rec) == [rec EXCEPT !.responses = Append(@, 200), !.pc = "done"]

\* a variant of the catch block that rethrows: the run ends without response
CatchRethrows(rec) == [rec EXCEPT !.calls = Append(@, "fault"), !.pc = "done"]

\* a variant of the catch block that logs and lets the run repeat the call
CatchAndRepeat(rec) == [rec EXCEPT !.calls = Append(@, "fault")]

\* the catch block: log, then fall through to the final return
Catch(rec) == Respond([rec EXCEPT !.calls = Append(@, "fault")])

\* the remote applies the accepted entries of a metafieldsSet batch
RECURSIVE ApplySet(_, _, _, _)
ApplySet(store, batch, accepted, i) ==
  IF i > Len(batch) THEN store
  ELSE ApplySet(IF i \in accepted
                  THEN [store EXCEPT ![batch[i].ownerId][batch[i].key] =
                                        Some(batch[i].value)]
                  ELSE store,
                batch, accepted, i + 1)

\* the subsets of a batch the remote may accept: all but at most MaxRejected
\* entries, or none
AcceptChoices(batch) ==
  {S \in SUBSET (1..Len(batch)) : Len(batch) - Cardinality(S) <= MaxRejected} \cup {{}}

\* ------------------------------------------------------------------------
\* products/update handler
\* ------------------------------------------------------------------------
\* a variant that goes on to the query whether a session was found or not
UpdateOnSessionNoGate(rec, session) == [rec EXCEPT !.pc = "query"]

\* the "if (!session)" gate
UpdateOnSession(rec, session) ==
  IF session THEN [rec EXCEPT !.pc = "query"] ELSE Respond(rec)

\* a variant that reads material_costs back from the total_cost it wrote
UpdateOnMetafieldsFeedback(rec, metafields) ==
  LET materialCosts ==
        IF metafields["total_cost"] # null
          THEN ExtractNumber(metafields, "total_cost")
          ELSE ExtractNumber(metafields, "material_costs")
      hoursWorked == ExtractNumber(metafields, "hours_worked")
      rec2 == [rec EXCEPT !.metafields = Some(metafields),
                          !.materialCosts = materialCosts,
                          !.hoursWorked = hoursWorked,
                          !.productRarity = ExtractRarity(metafields)]
  IN  IF materialCosts = null \/ hoursWorked = null
        THEN Respond(rec2)
        ELSE [rec2 EXCEPT !.pc = "findUnique"]

\* a variant whose gate lets the run pass when one of the two inputs exists
UpdateOnMetafieldsNeedsOne(rec, metafields) ==
  LET materialCosts == ExtractNumber(metafields, "material_costs")
      hoursWorked   == ExtractNumber(metafields, "hours_worked")
      rec2 == [rec EXCEPT !.metafields = Some(metafields),
                          !.materialCosts = materialCosts,
                          !.hoursWorked = hoursWorked,
                          !.productRarity = ExtractRarity(metafields)]
  IN  IF materialCosts = null /\ hoursWorked = null
        THEN Respond(rec2)
        ELSE [rec2 EXCEPT !.pc = "findUnique"]

\* the extraction of the three inputs from the edges of the response and the
\* "both must exist" gate
UpdateOnMetafields(rec, metafields) ==
  LET materialCosts == ExtractNumber(metafields, "material_costs")
      hoursWorked   == ExtractNumber(metafields, "hours_worked")
      rec2 == [rec EXCEPT !.metafields = Some(metafields),
                          !.materialCosts = materialCosts,
                          !.hoursWorked = hoursWorked,
                          !.productRarity = ExtractRarity(metafields)]
  IN  IF materialCosts = null \/ hoursWorked = null
        THEN Respond(rec2)
        ELSE [rec2 EXCEPT !.pc = "findUnique"]

\* a variant that computes with the fallback values when no record exists
UpdateOnDefaultsFallsBack(rec, defaults) ==
  LET rec2 == [rec EXCEPT !.defaults = defaults]
      used == IF defaults = null THEN SettingsData(EmptyForm) ELSE defaults[1]
  IN  [rec2 EXCEPT
         !.metafieldsToSet =
            MetafieldsToSet(rec.productId, rec.materialCosts[1],
                            rec.hoursWorked[1], rec.productRarity, used),
         !.pc = "metafieldsSet"]

\* a variant that passes hours worked and material costs in the wrong order
UpdateOnDefaultsSwapped(rec, defaults) ==
  LET rec2 == [rec EXCEPT !.defaults = defaults]
  IN  IF defaults = null
        THEN Respond(rec2)
        ELSE [rec2 EXCEPT
                !.metafieldsToSet =
                   MetafieldsToSet(rec.productId, rec.hoursWorked[1],
                                   rec.materialCosts[1], rec.productRarity,
                                   defaults[1]),
                !.pc = "metafieldsSet"]

\* the "if (!defaults)" gate, the calculation and the construction of
\* metafieldsToSet
UpdateOnDefaults(rec, defaults) ==
  LET rec2 == [rec EXCEPT !.defaults = defaults]
  IN  IF defaults = null
        THEN Respond(rec2)
        ELSE [rec2 EXCEPT
                !.metafieldsToSet =
                   MetafieldsToSet(rec.productId, rec.materialCosts[1],
                                   rec.hoursWorked[1], rec.productRarity,
                                   defaults[1]),
                !.pc = "metafieldsSet"]



\* await sessionStorage.loadSession, then the session gate
UpdateLoadSession(r) ==
  /\ run[r].topic = "products/update"
  /\ run[r].pc = "loadSession"
  /\ \/ run' = [run EXCEPT ![r] = Catch(Called(@, "loadSession"))]
     \/ run' = [run EXCEPT ![r] =
                  UpdateOnSession(Called(@, "loadSession"),
                                  sessionStorage[run[r].shop])]
  /\ UNCHANGED <<sessionStorage, metafieldDefaults, productMetafields, edits, last>>

\* await graphqlRequest(getProductMetafields), then the extraction and the
\* input gate.  The response carries the item's metafields, or no data (the
\* edge list is then empty).  The query asks for the first 20 metafields of
\* the namespace; the items of the model have at most the 14 keys of Keys,
\* so the response is never truncated.
UpdateQuery(r) ==
  /\ run[r].topic = "products/update"
  /\ run[r].pc = "query"
  /\ \/ /\ run' = [run EXCEPT ![r] = Catch(Called(@, "query"))]
        /\ UNCHANGED last
     \/ \E metafields \in {productMetafields[run[r].productId], NoMetafields} :
          /\ run' = [run EXCEPT ![r] =
                       UpdateOnMetafields(Called(@, "query"), metafields)]
          /\ last' = [last EXCEPT ![run[r].productId].reader = r]
  /\ UNCHANGED <<sessionStorage, metafieldDefaults, productMetafields, edits>>

\* a variant that takes the first stored record, of whichever shop
UpdateFindUniqueAnyShop(r) ==
  /\ run[r].topic = "products/update"
  /\ run[r].pc = "findUnique"
  /\ \/ run' = [run EXCEPT ![r] = Catch(Called(@, "findUnique"))]
     \/ \E shop \in DOMAIN metafieldDefaults :
          run' = [run EXCEPT ![r] =
                    UpdateOnDefaults(Called(@, "findUnique"),
                                     metafieldDefaults[shop])]
  /\ UNCHANGED <<sessionStorage, metafieldDefaults, productMetafields, edits, last>>

\* await prisma.metafieldDefaults.findUnique, then the defaults gate and the
\* calculation
UpdateFindUnique(r) ==
  /\ run[r].topic = "products/update"
  /\ run[r].pc = "findUnique"
  /\ \/ run' = [run EXCEPT ![r] = Catch(Called(@, "findUnique"))]
     \/ run' = [run EXCEPT ![r] =
                  UpdateOnDefaults(Called(@, "findUnique"),
                                   metafieldDefaults[run[r].shop])]
  /\ UNCHANGED <<sessionStorage, metafieldDefaults, productMetafields, edits, last>>

\* a variant that undoes the accepted entries when the remote rejected some
UpdateMetafieldsSetRollsBack(r) ==
  /\ run[r].topic = "products/update"
  /\ run[r].pc = "metafieldsSet"
  /\ \E accepted \in AcceptChoices(run[r].metafieldsToSet), faulted \in BOOLEAN :
       /\ productMetafields' =
            IF accepted = 1..Len(run[r].metafieldsToSet)
              THEN ApplySet(productMetafields, run[r].metafieldsToSet, accepted, 1)
              ELSE productMetafields
       /\ run' = [run EXCEPT ![r] =
            LET rec == [Called(@, "metafieldsSet") EXCEPT !.applied = accepted]
            IN  IF faulted THEN Catch(rec) ELSE Respond(rec)]
       /\ last' = IF accepted = {} THEN last
                  ELSE [last EXCEPT ![run[r].productId].writer = r]
  /\ UNCHANGED <<sessionStorage, metafieldDefaults, edits>>

\* await graphqlRequest(metafieldsSet), the logging of userErrors and the
\* final return.  A fault of the call is raised before the request reached
\* the remote (nothing applied) or after the remote processed it.
UpdateMetafieldsSet(r) ==
  /\ run[r].topic = "products/update"
  /\ run[r].pc = "metafieldsSet"
  /\ \E accepted \in AcceptChoices(run[r].metafieldsToSet), faulted \in BOOLEAN :
       /\ productMetafields' =
            ApplySet(productMetafields, run[r].metafieldsToSet, accepted, 1)
       /\ run' = [run EXCEPT ![r] =
            LET rec == [Called(@, "metafieldsSet") EXCEPT !.applied = accepted]
            IN  IF faulted THEN Catch(rec) ELSE Respond(rec)]
       /\ last' = IF accepted = {} THEN last
                  ELSE [last EXCEPT ![run[r].productId].writer = r]
  /\ UNCHANGED <<sessionStorage, metafieldDefaults, edits>>

\* ------------------------------------------------------------------------
\* products/create handler
\* ------------------------------------------------------------------------
\* a variant without the session gate
CreateOnSessionNoGate(rec, session) == [rec EXCEPT !.pc = "findUnique"]

\* the "if (!session)" gate
CreateOnSession(rec, session) ==
  IF session THEN [rec EXCEPT !.pc = "findUnique"] ELSE Respond(rec)

\* a variant that seeds the rarity NORMAL when no record exists
CreateOnDefaultsSeedsAnyway(rec, defaults) ==
  LET rec2 == [rec EXCEPT !.defaults = defaults]
      metafieldsSetInput ==
        IF defaults = null
          THEN <<Entry(rec.productId, "rarity", StrNormalDefault,
                       "single_line_text_field")>>
          ELSE MetafieldsSetInput(rec.productId, defaults[1])
  IN  IF Len(metafieldsSetInput) = 0
        THEN Respond(rec2)
        ELSE [rec2 EXCEPT !.metafieldsToSet = metafieldsSetInput,
                          !.pc = "metafieldsSet"]

\* the "if (!defaults)" gate, the eight pushes, the "length === 0" gate and
\* the construction of metafieldsSetInput
CreateOnDefaults(rec, defaults) ==
  LET rec2 == [rec EXCEPT !.defaults = defaults]
      metafieldsSetInput ==
        IF defaults = null THEN <<>>
        ELSE MetafieldsSetInput(rec.productId, defaults[1])
  IN  IF defaults = null \/ Len(metafieldsSetInput) = 0
        THEN Respond(rec2)
        ELSE [rec2 EXCEPT !.metafieldsToSet = metafieldsSetInput,
                          !.pc = "metafieldsSet"]

\* await sessionStorage.loadSession, then the session gate
CreateLoadSession(r) ==
  /\ run[r].topic = "products/create"
  /\ run[r].pc = "loadSession"
  /\ \/ run' = [run EXCEPT ![r] = Catch(Called(@, "loadSession"))]
     \/ run' = [run EXCEPT ![r] =
                  CreateOnSession(Called(@, "loadSession"),
                                  sessionStorage[run[r].shop])]
  /\ UNCHANGED <<sessionStorage, metafieldDefaults, productMetafields, edits, last>>

\* await prisma.metafieldDefaults.findUnique, then the defaults gate and the
\* construction of the batch
CreateFindUnique(r) ==
  /\ run[r].topic = "products/create"
  /\ run[r].pc = "findUnique"
  /\ \/ run' = [run EXCEPT ![r] = Catch(Called(@, "findUnique"))]
     \/ run' = [run EXCEPT ![r] =
                  CreateOnDefaults(Called(@, "findUnique"),
                                   metafieldDefaults[run[r].shop])]
  /\ UNCHANGED <<sessionStorage, metafieldDefaults, productMetafields, edits, last>>

\* await graphqlRequest(metafieldsSet), the logging of userErrors and of
\* GraphQL errors, and the final return
CreateMetafieldsSet(r) ==
  /\ run[r].topic = "products/create"
  /\ run[r].pc = "metafieldsSet"
  /\ \E accepted \in AcceptChoices(run[r].metafieldsToSet), faulted \in BOOLEAN :
       /\ productMetafields' =
            ApplySet(productMetafields, run[r].metafieldsToSet, accepted, 1)
       /\ run' = [run EXCEPT ![r] =
            LET rec == [Called(@, "metafieldsSet") EXCEPT !.applied = accepted]
            IN  IF faulted THEN Catch(rec) ELSE Respond(rec)]
  /\ UNCHANGED <<sessionStorage, metafieldDefaults, edits, last>>

\* ------------------------------------------------------------------------
\* Specification
\* ------------------------------------------------------------------------
Topics == {"products/create", "products/update"}

Next ==
  \/ \E shop \in Shops, form \in Forms : SaveSettings(shop, form)
  \/ \E p \in Products, v \in MaterialCostsValues :
       EditProductInput(p, "material_costs", v)
  \/ \E p \in Products, v \in HoursWorkedValues :
       EditProductInput(p, "hours_worked", v)
  \/ \E p \in Products, v \in RarityValues : EditProductInput(p, "rarity", v)
  \/ \E r \in Runs, topic \in Topics, p \in Products : Receive(r, topic, p)
  \/ \E r \in Runs : UpdateLoadSession(r)
  \/ \E r \in Runs : UpdateQuery(r)
  \/ \E r \in Runs : UpdateFindUnique(r)
  \/ \E r \in Runs : UpdateMetafieldsSet(r)
  \/ \E r \in Runs : CreateLoadSession(r)
  \/ \E r \in Runs : CreateFindUnique(r)
  \/ \E r \in Runs : CreateMetafieldsSet(r)

Spec == Init /\ [][Next]_vars

\* ------------------------------------------------------------------------
\* The calculation on a wider range of inputs: one update notification for
\* an item and settings drawn from the sets below.  On these inputs the
\* two-decimal rendering of the exact values and of the IEEE doubles agree.
\* ------------------------------------------------------------------------
CalcMaterialCosts == {Some(<<"0">>), Some(Str10), Some(<<"7", ".", "3">>)}

CalcHoursWorked == {Some(<<"0">>), Some(Str2), Some(<<"1", ".", "5">>)}

CalcRarity ==
  {null, Some(<<>>), Some(<<"o", "o", "a", "k">>), Some(<<"O", "O", "A", "K">>),
   Some(StrOoakMixed), Some(StrNormalDefault), Some(<<"o", "a", "k">>)}

NumericFields == ConfigFields \ {"rarity"}

\* the worked example with the two remaining fields filled in
FormFull ==
  [FormA EXCEPT !.ooakMultiplier = <<"1", ".", "5">>,
                !.rarity = <<"O", "O", "A", "K">>]

\* the empty form, the worked example, the full form, the full form with one
\* field left empty or set to zero, and two more discounts
CalcForms ==
  {EmptyForm, FormA, FormFull, [EmptyForm EXCEPT !.normalMultiplier = <<"0">>]}
    \cup {[FormFull EXCEPT ![f] = <<>>] : f \in ConfigFields}
    \cup {[FormFull EXCEPT ![f] = <<"0">>] : f \in NumericFields}
    \cup {[FormFull EXCEPT !.etsyDiscount = <<"1", "0", "0">>],
          [FormFull EXCEPT !.etsyDiscount = <<"2", ".", "5">>]}

CalcInit ==
  /\ sessionStorage = [s \in Shops |-> TRUE]
  /\ metafieldDefaults \in [Shops -> {Some(SettingsData(f)) : f \in CalcForms}]
  /\ productMetafields \in
       [Products -> {[NoMetafields EXCEPT !["material_costs"] = m,
                                          !["hours_worked"] = h,
                                          !["rarity"] = q] :
                       m \in CalcMaterialCosts, h \in CalcHoursWorked,
                       q \in CalcRarity}]
  /\ run = [r \in Runs |-> IdleRun]
  /\ edits = 0
  /\ last = [p \in Products |-> [reader |-> "none", writer |-> "none"]]

CalcNext ==
  \/ \E p \in Products : Receive("r1", "products/update", p)
  \/ UpdateLoadSession("r1")
  \/ UpdateQuery("r1")
  \/ UpdateFindUnique("r1")
  \/ UpdateMetafieldsSet("r1")

CalcSpec == CalcInit /\ [][CalcNext]_vars

\* ------------------------------------------------------------------------
\* Several shops and items: two shops, two items in the catalog of the one
\* and one item in the catalog of the other, and two notifications about
\* any of the items while the settings of either shop are saved
\* ------------------------------------------------------------------------
IsoShops == {"shop-a", "shop-b"}

IsoProducts == {1, 2, 3}

\* the cost inputs of the three items
IsoMetafields ==
  [p \in IsoProducts |->
     [NoMetafields EXCEPT !["material_costs"] = Some(Str10),
                          !["hours_worked"] = Some(Str2),
                          !["rarity"] = IF p = 1 THEN null
                                        ELSE IF p = 2 THEN Some(StrOoakMixed)
                                        ELSE Some(<<"o", "o", "a", "k">>)]]

IsoInit ==
  /\ sessionStorage \in [IsoShops -> BOOLEAN]
  /\ metafieldDefaults \in
       {[shop \in IsoShops |-> IF shop = "shop-a" THEN a ELSE b] :
          a \in {null, Some(SettingsData(FormA))},
          b \in {null, Some(SettingsData(FormZero))}}
  /\ productMetafields = IsoMetafields
  /\ run = [r \in Runs |-> IdleRun]
  /\ edits = 0
  /\ last = [p \in IsoProducts |-> [reader |-> "none", writer |-> "none"]]

IsoNext ==
  \/ \E shop \in IsoShops, form \in Forms : SaveSettings(shop, form)
  \/ \E r \in Runs, topic \in Topics, p \in IsoProducts : Receive(r, topic, p)
  \/ \E r \in Runs : UpdateLoadSession(r)
  \/ \E r \in Runs : UpdateQuery(r)
  \/ \E r \in Runs : UpdateFindUnique(r)
  \/ \E r \in Runs : UpdateMetafieldsSet(r)
  \/ \E r \in Runs : CreateLoadSession(r)
  \/ \E r \in Runs : CreateFindUnique(r)
  \/ \E r \in Runs : CreateMetafieldsSet(r)

IsoSpec == IsoInit /\ [][IsoNext]_vars

\* ------------------------------------------------------------------------
\* Properties
\* ------------------------------------------------------------------------
UpdateRuns == {r \in Runs : run[r].topic = "products/update"}

CreateRuns == {r \in Runs : run[r].topic = "products/create"}

AllEntries(r) == 1..Len(run[r].metafieldsToSet)

Ended200(r) == run[r].pc = "done" /\ run[r].responses = <<200>>

\* C1: a run that has ended has sent exactly one response, with status 200,
\* and a run that has not ended has sent none; this on every path, the
\* short-circuits, the rejected writes and the faults included.
C1_AlwaysAcknowledges ==
  \A r \in Runs :
    /\ run[r].pc = "done" => run[r].responses = <<200>>
    /\ run[r].pc # "done" => run[r].responses = <<>>

\* an update run ended after a write with rejected entries, and a create
\* run ended through the catch block
C1_Witness ==
  \E r1 \in UpdateRuns, r2 \in CreateRuns :
    /\ Ended200(r1)
    /\ run[r1].calls = <<"loadSession", "query", "findUnique", "metafieldsSet">>
    /\ run[r1].applied # AllEntries(r1)
    /\ Ended200(r2)
    /\ run[r2].calls = <<"loadSession", "findUnique", "fault">>

\* the update run has both inputs, and its lookup of the defaults completed
\* and found no record
UpdateFoundNoDefaults(r) ==
  /\ run[r].topic = "products/update"
  /\ run[r].calls = <<"loadSession", "query", "findUnique">>
  /\ run[r].materialCosts # null /\ run[r].hoursWorked # null
  /\ run[r].defaults = null

Faulted(r) == \E i \in 1..Len(run[r].calls) : run[r].calls[i] = "fault"

\* C3: a fault of an I/O call is caught: the run then ends with one response
\* of status 200 and makes no further call, so no metafieldsSet call follows
\* the fault.
C3_FaultsAreCaught ==
  \A r \in Runs :
    Faulted(r) =>
      /\ Ended200(r)
      /\ run[r].calls[Len(run[r].calls)] = "fault"
      /\ \A i \in 1..(Len(run[r].calls) - 1) : run[r].calls[i] # "fault"

\* an update run whose metafieldsSet call faulted and a create run whose
\* findUnique call faulted
C3_Witness ==
  \E r1 \in UpdateRuns, r2 \in CreateRuns :
    /\ run[r1].calls =
         <<"loadSession", "query", "findUnique", "metafieldsSet", "fault">>
    /\ run[r2].calls = <<"loadSession", "findUnique", "fault">>
    /\ Ended200(r1) /\ Ended200(r2)

\* the query of the update run completed
QueryCompleted(r) ==
  /\ run[r].topic = "products/update"
  /\ Len(run[r].calls) >= 2
  /\ run[r].calls[2] = "query"
  /\ run[r].metafields # null

\* C4: an update run whose query shows material_costs or hours_worked absent
\* ends right after the query: no findUnique and no metafieldsSet call, and
\* a response of status 200.
C4_MissingInputNoWrite ==
  \A r \in Runs :
    ( /\ QueryCompleted(r)
      /\ \/ run[r].metafields[1]["material_costs"] = null
         \/ run[r].metafields[1]["hours_worked"] = null )
    => /\ Ended200(r)
       /\ run[r].calls = <<"loadSession", "query">>
       /\ run[r].applied = {}

\* the item has material_costs but no hours_worked, and the run saw that
C4_Witness ==
  \E r \in Runs :
    /\ QueryCompleted(r)
    /\ run[r].metafields[1] = productMetafields[run[r].productId]
    /\ run[r].metafields[1]["material_costs"] # null
    /\ run[r].metafields[1]["hours_worked"] = null
    /\ Ended200(r)

\* the lookup of the defaults of the create run completed and found no record
CreateFoundNoDefaults(r) ==
  /\ run[r].topic = "products/create"
  /\ Len(run[r].calls) >= 2
  /\ run[r].calls[2] = "findUnique"
  /\ ~Faulted(r)
  /\ run[r].defaults = null

\* C5: a create run that finds no defaults record makes no metafieldsSet
\* call and responds 200.
C5_CreateWithoutDefaultsNoWrite ==
  \A r \in Runs :
    CreateFoundNoDefaults(r) =>
      /\ Ended200(r)
      /\ run[r].calls = <<"loadSession", "findUnique">>
      /\ run[r].applied = {}

C5_Witness ==
  \E r \in Runs :
    /\ CreateFoundNoDefaults(r)
    /\ metafieldDefaults[run[r].shop] = null
    /\ Ended200(r)

\* the session lookup of the run completed and found no session
FoundNoSession(r) ==
  /\ run[r].pc # "idle"
  /\ Len(run[r].calls) >= 1
  /\ run[r].calls # <<"loadSession", "fault">>
  /\ ~sessionStorage[run[r].shop]

\* C6: a run of either handler that finds no stored session ends right after
\* the session lookup: no query, no findUnique, no metafieldsSet, and a
\* response of status 200.
C6_NoSessionShortCircuit ==
  \A r \in Runs :
    FoundNoSession(r) =>
      /\ Ended200(r)
      /\ run[r].calls = <<"loadSession">>
      /\ run[r].metafields = null /\ run[r].defaults = null
      /\ run[r].applied = {}

C6_Witness ==
  \E r1 \in UpdateRuns, r2 \in CreateRuns :
    FoundNoSession(r1) /\ FoundNoSession(r2) /\ Ended200(r1) /\ Ended200(r2)

\* the item holds every entry of the batch
Holds(batch) ==
  \A i \in 1..Len(batch) :
    productMetafields[batch[i].ownerId][batch[i].key] = Some(batch[i].value)

\* the four derived attributes of the item are the four values of the batch
\* of one update run
FromOneComputation(p) ==
  \E r \in UpdateRuns :
    /\ run[r].productId = p
    /\ \A k \in DerivedKeys :
         \E i \in AllEntries(r) :
           /\ run[r].metafieldsToSet[i].key = k
           /\ productMetafields[p][k] = Some(run[r].metafieldsToSet[i].value)

Untouched(p) == \A k \in DerivedKeys : productMetafields[p][k] = null

\* no metafieldsSet call of an update run was accepted in part
NoPartialAcceptance ==
  \A r \in UpdateRuns : run[r].applied \in {{}, AllEntries(r)}

\* C7 as stated: in every reachable state the four derived attributes of an
\* item are all untouched or all come from the computation of one run, also
\* after a write of which the remote rejected a subset.
C7_NeverPartiallyPatched ==
  \A p \in Products : Untouched(p) \/ FromOneComputation(p)

\* C7 amended: as long as no batch was accepted in part, the four derived
\* attributes of an item are all untouched or all come from the computation
\* of one run.
C7_WholesaleUnlessRejected ==
  NoPartialAcceptance =>
    \A p \in Products : Untouched(p) \/ FromOneComputation(p)

\* two update runs with different results both wrote the item in full
C7_Witness ==
  \E r1 \in UpdateRuns, r2 \in UpdateRuns :
    /\ run[r1].productId = run[r2].productId
    /\ run[r1].applied = AllEntries(r1) /\ run[r1].applied # {}
    /\ run[r2].applied = AllEntries(r2) /\ run[r2].applied # {}
    /\ run[r1].metafieldsToSet # run[r2].metafieldsToSet
    /\ Holds(run[r1].metafieldsToSet)

InputsOf(metafields) == [k \in InputKeys |-> metafields[k]]

WroteInFull(r) ==
  /\ run[r].calls = <<"loadSession", "query", "findUnique", "metafieldsSet">>
  /\ run[r].applied = AllEntries(r)
  /\ run[r].pc = "done"

\* the batch of the update handler for the inputs in a set of metafields
BatchFor(p, metafields, defaults) ==
  MetafieldsToSet(p, ExtractNumber(metafields, "material_costs")[1],
                  ExtractNumber(metafields, "hours_worked")[1],
                  ExtractRarity(metafields), defaults[1])

\* C8 as stated: when two update runs of one item have both read and written
\* it, and the inputs and the settings are still the ones the later reader
\* saw, the item holds the calculation for its current inputs.
C8_ConvergesToCurrentInputs ==
  \A r1 \in UpdateRuns, r2 \in UpdateRuns :
    ( /\ r1 # r2
      /\ run[r1].productId = run[r2].productId
      /\ WroteInFull(r1) /\ WroteInFull(r2)
      /\ last[run[r2].productId].reader = r2
      /\ InputsOf(productMetafields[run[r2].productId])
           = InputsOf(run[r2].metafields[1])
      /\ metafieldDefaults[run[r2].shop] = run[r2].defaults
      /\ run[r1].defaults = run[r2].defaults )
    => Holds(BatchFor(run[r2].productId, productMetafields[run[r2].productId],
                      metafieldDefaults[run[r2].shop]))

\* C8 amended: as long as no batch was accepted in part, the item holds the
\* calculation for the inputs and the settings that were read by the run
\* whose write was applied last, whichever run read last.
C8_LastWriteWins ==
  \A p \in Products, r \in UpdateRuns :
    (last[p].writer = r /\ NoPartialAcceptance)
    => Holds(BatchFor(p, run[r].metafields[1], run[r].defaults))

\* the run that read first wrote last, over the result of the other run
C8_Witness ==
  \E r1 \in UpdateRuns, r2 \in UpdateRuns :
    /\ r1 # r2
    /\ run[r1].productId = run[r2].productId
    /\ WroteInFull(r1) /\ WroteInFull(r2)
    /\ last[run[r1].productId] = [reader |-> r2, writer |-> r1]
    /\ run[r1].metafieldsToSet # run[r2].metafieldsToSet
    /\ Holds(run[r1].metafieldsToSet)

SameNotification(r1, r2) ==
  /\ r1 # r2
  /\ run[r1].topic = run[r2].topic
  /\ run[r1].topic # "none"
  /\ run[r1].productId = run[r2].productId

WriteAccepted(r) ==
  /\ run[r].metafieldsToSet # <<>>
  /\ run[r].applied = AllEntries(r)

\* C9: while neither the item's inputs nor the settings change, two runs for
\* the same notification build the same batch, and once both writes were
\* accepted the item holds exactly that batch, as after one run.
C9_ReplayIdempotent ==
  edits = 0 =>
    \A r1 \in Runs, r2 \in Runs :
      SameNotification(r1, r2) =>
        /\ (run[r1].metafieldsToSet # <<>> /\ run[r2].metafieldsToSet # <<>>)
             => run[r1].metafieldsToSet = run[r2].metafieldsToSet
        /\ (WriteAccepted(r1) /\ WriteAccepted(r2))
             => Holds(run[r1].metafieldsToSet)

\* the second update run read the item after the first one had written it
C9_Witness ==
  /\ edits = 0
  /\ \E r1 \in UpdateRuns, r2 \in UpdateRuns :
       /\ SameNotification(r1, r2)
       /\ WriteAccepted(r1) /\ WriteAccepted(r2)
       /\ run[r1].metafields[1]["total_cost"] = null
       /\ run[r2].metafields[1]["total_cost"] # null
       /\ run[r2].pc = "done"

\* the item attribute that seeds a settings field
SeedKeyOf ==
  [etsyDiscount |-> "etsy_discount", shipping |-> "shipping", vat |-> "vat",
   normalMultiplier |-> "normal_multiplier", ooakMultiplier |-> "ooak_multiplier",
   rarity |-> "rarity", etsyMarkupProfit |-> "etsy_markup_profit",
   hourlyRate |-> "hourly_rate"]

PresentFields(defaults) == {f \in ConfigFields : defaults[f] # null}

\* C10: a create run that found a defaults record builds one batch with
\* exactly one entry per stored field, carrying the stored value unchanged
\* and owned by the notified item, and with no derived attribute; when no
\* field is stored it makes no metafieldsSet call.
C10_CreateSeedsVerbatim ==
  \A r \in CreateRuns :
    run[r].defaults # null =>
      LET d == run[r].defaults[1]
          b == run[r].metafieldsToSet
      IN  /\ Len(b) = Cardinality(PresentFields(d))
          /\ \A f \in PresentFields(d) :
               \E i \in 1..Len(b) :
                 /\ b[i].key = SeedKeyOf[f]
                 /\ b[i].value = d[f][1]
                 /\ b[i].ownerId = run[r].productId
                 /\ b[i].namespace = "custom"
          /\ \A i \in 1..Len(b) : b[i].key \notin DerivedKeys
          /\ PresentFields(d) = {}
               => Ended200(r) /\ run[r].calls = <<"loadSession", "findUnique">>
          /\ PresentFields(d) # {} => run[r].pc \in {"metafieldsSet", "done"}
          /\ Cardinality({i \in 1..Len(run[r].calls) :
                            run[r].calls[i] = "metafieldsSet"}) <= 1

\* a record with a stored "0" and absent fields was seeded, and a run that
\* found a record without any field ended without a write
C10_Witness ==
  \E r1 \in CreateRuns, r2 \in CreateRuns :
    /\ run[r1].defaults = Some(SettingsData(FormZero))
    /\ Len(run[r1].metafieldsToSet) = 2
    /\ run[r1].calls = <<"loadSession", "findUnique", "metafieldsSet">>
    /\ run[r2].defaults = Some(SettingsData(EmptyForm))
    /\ run[r2].pc = "done"


\* the update run passed both gates and built its batch
Computed(r) ==
  /\ run[r].topic = "products/update"
  /\ Len(run[r].calls) >= 3
  /\ run[r].calls[3] = "findUnique"
  /\ run[r].defaults # null

WriteCalls(r) ==
  Cardinality({i \in 1..Len(run[r].calls) : run[r].calls[i] = "metafieldsSet"})

\* C11: an update run that has computed goes on to one metafieldsSet call
\* whose batch has exactly four entries, one for each of total_cost,
\* etsy_price, etsy_fees and market_price, each in namespace custom, of type
\* number_decimal and owned by the notified item, whatever the values are.
C11_WritesAllFourDerived ==
  \A r \in Runs :
    Computed(r) =>
      LET b == run[r].metafieldsToSet
      IN  /\ Len(b) = 4
          /\ {b[i].key : i \in 1..Len(b)} = DerivedKeys
          /\ \A i \in 1..Len(b) :
               /\ b[i].namespace = "custom"
               /\ b[i].type = "number_decimal"
               /\ b[i].ownerId = run[r].productId
          /\ run[r].pc \in {"metafieldsSet", "done"}
          /\ run[r].pc = "done" => WriteCalls(r) = 1

\* a run whose material_costs is not a number has sent its batch of four
C11_Witness ==
  \E r \in Runs :
    /\ Computed(r)
    /\ run[r].materialCosts = Some(NaN)
    /\ run[r].pc = "done"
    /\ WriteCalls(r) = 1

\* C12: the step that makes the metafieldsSet call leaves every accepted
\* entry on the item, is the only metafieldsSet call of the run and ends the
\* run with a response of status 200, also when entries were rejected; a run
\* that has ended takes no further step (no retry, no rollback).
C12_NoRetryNoRollback ==
  [][\A r \in Runs :
       /\ (run[r].pc = "metafieldsSet" /\ run'[r] # run[r]) =>
            /\ run'[r].pc = "done"
            /\ run'[r].responses = <<200>>
            /\ Cardinality({i \in 1..Len(run'[r].calls) :
                              run'[r].calls[i] = "metafieldsSet"}) = 1
            /\ \A i \in run'[r].applied :
                 productMetafields'[run[r].metafieldsToSet[i].ownerId]
                                   [run[r].metafieldsToSet[i].key]
                   = Some(run[r].metafieldsToSet[i].value)
       /\ run[r].pc = "done" => run'[r] = run[r]]_vars

\* an update run and a create run ended after a write of which the remote
\* rejected one entry, and the accepted entries of the update run are on
\* the item
C12_Witness ==
  \E r1 \in UpdateRuns, r2 \in CreateRuns :
    /\ Ended200(r1) /\ Ended200(r2)
    /\ ~Faulted(r1) /\ ~Faulted(r2)
    /\ Cardinality(run[r1].applied) = 3
    /\ Cardinality(run[r2].applied) = Len(run[r2].metafieldsToSet) - 1
    /\ run[r2].applied # {}
    /\ \A i \in run[r1].applied :
         productMetafields[run[r1].productId][run[r1].metafieldsToSet[i].key]
           = Some(run[r1].metafieldsToSet[i].value)


\* ------------------------------------------------------------------------
\* The reference calculation, as the specification of the pricing states it
\* ------------------------------------------------------------------------
\* the rarity label is "ooak" in any mix of upper and lower case
IsOoakLabel(opt) ==
  /\ opt # null
  /\ Len(opt[1]) = 4
  /\ opt[1][1] \in {"o", "O"} /\ opt[1][2] \in {"o", "O"}
  /\ opt[1][3] \in {"a", "A"} /\ opt[1][4] \in {"k", "K"}

\* a settings field: its stored value when present, its fallback when absent
RefField(config, f, fallback) ==
  IF config[f] = null THEN fallback ELSE parseFloat(config[f][1])

RefPricing(materialCost, hoursWorked, rarity, config) ==
  LET hourlyRate   == RefField(config, "hourlyRate", Num(0))
      markup       == RefField(config, "etsyMarkupProfit", Num(0))
      tax          == RefField(config, "vat", Num(0))
      shipping     == RefField(config, "shipping", Num(0))
      discount     == RefField(config, "etsyDiscount", Num(0))
      multiplier   == IF IsOoakLabel(rarity)
                        THEN RefField(config, "ooakMultiplier", Rat(2, 1))
                        ELSE RefField(config, "normalMultiplier", Rat(6, 5))
      labor        == Mul(hoursWorked, hourlyRate)
      totalCost    == Add(materialCost, labor)
      markedUp     == Mul(totalCost, Add(Num(1), Div(markup, Num(100))))
      adjusted     == Add(Mul(markedUp, multiplier), shipping)
      priceWithTax == Mul(adjusted, Add(Num(1), Div(tax, Num(100))))
      platformFee  == Add(Mul(priceWithTax, Rat(95, 1000)), Rat(1, 5))
      undiscounted == Add(priceWithTax, platformFee)
      salePrice    == IF Gt(discount, Num(0))
                        THEN Div(undiscounted,
                                 Add(Num(1), Div(Mul(Num(-1), discount), Num(100))))
                        ELSE undiscounted
      marketPrice  == Mul(Mul(totalCost, Rat(105, 100)), multiplier)
  IN  [total_cost |-> totalCost, etsy_price |-> salePrice,
       etsy_fees |-> platformFee, market_price |-> marketPrice,
       priceWithTax |-> priceWithTax, discount |-> discount,
       multiplier |-> multiplier]

\* the reference calculation on what the run read
RefOf(r) ==
  RefPricing(parseFloat(run[r].metafields[1]["material_costs"][1]),
             parseFloat(run[r].metafields[1]["hours_worked"][1]),
             run[r].metafields[1]["rarity"], run[r].defaults[1])

\* the value of the batch entry with the key
Written(r, key) ==
  LET b == run[r].metafieldsToSet
  IN  b[CHOOSE i \in 1..Len(b) : b[i].key = key].value

\* the run read the inputs and the settings of the worked example
ReadVector(r) ==
  /\ run[r].metafields[1]["material_costs"] = Some(Str10)
  /\ run[r].metafields[1]["hours_worked"] = Some(Str2)
  /\ run[r].defaults = Some(SettingsData(FormA))

\* C13: the four values an update run writes are the two-decimal renderings
\* of the reference calculation on the inputs and settings it read; for the
\* worked example they are 40.00, 92.38, 7.40, 50.40 with a normal rarity
\* and 40.00, 148.91, 11.81, 84.00 with rarity OOAK.
C13_WritesReferenceValues ==
  \A r \in Runs :
    Computed(r) =>
      /\ \A k \in DerivedKeys : Written(r, k) = toFixed2(RefOf(r)[k])
      /\ (ReadVector(r) /\ ~IsOoakLabel(run[r].metafields[1]["rarity"])) =>
           /\ Written(r, "total_cost") = <<"4", "0", ".", "0", "0">>
           /\ Written(r, "etsy_fees") = <<"7", ".", "4", "0">>
           /\ Written(r, "etsy_price") = <<"9", "2", ".", "3", "8">>
           /\ Written(r, "market_price") = <<"5", "0", ".", "4", "0">>
      /\ (ReadVector(r) /\ IsOoakLabel(run[r].metafields[1]["rarity"])) =>
           /\ Written(r, "total_cost") = <<"4", "0", ".", "0", "0">>
           /\ Written(r, "etsy_fees") = <<"1", "1", ".", "8", "1">>
           /\ Written(r, "etsy_price") = <<"1", "4", "8", ".", "9", "1">>
           /\ Written(r, "market_price") = <<"8", "4", ".", "0", "0">>

\* the worked example with rarity OOAK was computed and written in full
C13_Witness ==
  \E r \in Runs :
    /\ Computed(r)
    /\ ReadVector(r)
    /\ IsOoakLabel(run[r].metafields[1]["rarity"])
    /\ run[r].applied = AllEntries(r)
    /\ Holds(run[r].metafieldsToSet)


\* the calculation of the update handler on what the run extracted
CalcOf(r) ==
  Calculate(run[r].materialCosts[1], run[r].hoursWorked[1],
            run[r].productRarity, run[r].defaults[1])

\* every numeric settings field that is stored parses to a finite number
NumericConfig(d) ==
  \A f \in NumericFields : d[f] = null \/ IsFinite(parseFloat(d[f][1]))

\* the run read cost inputs that both parse to finite numbers
NumericInputs(r) ==
  /\ IsFinite(run[r].materialCosts[1])
  /\ IsFinite(run[r].hoursWorked[1])

\* C14: for numeric material costs and hours worked and settings whose stored
\* fields are all numeric, a discount of 100 included, the calculation yields
\* four finite values.
C14_TotalOnNumericInput ==
  \A r \in Runs :
    (Computed(r) /\ NumericInputs(r) /\ NumericConfig(run[r].defaults[1])) =>
      /\ IsFinite(CalcOf(r).totalCost)
      /\ IsFinite(CalcOf(r).finalEtsyPrice)
      /\ IsFinite(CalcOf(r).etsyFees)
      /\ IsFinite(CalcOf(r).marketPrice)

\* the run read a material_costs or hours_worked value that is present and
\* does not parse to a number
ReadMalformedInput(r) ==
  /\ r \in UpdateRuns
  /\ run[r].metafields # null
  /\ \E k \in {"material_costs", "hours_worked"} :
       /\ run[r].metafields[1][k] # null
       /\ parseFloat(run[r].metafields[1][k][1]) = NaN

\* C15: an update run that read a present material_costs or hours_worked
\* value which does not parse to a number requests no write, writes no
\* derived attribute to the item, and ends with a 200 response.
C15_MalformedInputNoWrite ==
  \A r \in Runs :
    ReadMalformedInput(r) =>
      /\ WriteCalls(r) = 0
      /\ run[r].applied = {}
      /\ run[r].pc = "done" => run[r].responses = <<200>>


\* the batch of the update handler for what the run extracted, with other
\* settings
BatchWith(r, defaults) ==
  MetafieldsToSet(run[r].productId, run[r].materialCosts[1],
                  run[r].hoursWorked[1], run[r].productRarity, defaults)

\* the stored discounts the fee is compared across
DiscountValues ==
  {null, Some(<<"0">>), Some(Str10), Some(<<"2", ".", "5">>), Some(<<"5", "0">>)}

\* price with tax plus platform fee, before any discount
Undiscounted(r) == Add(RefOf(r).priceWithTax, RefOf(r).etsy_fees)

\* C16: with no stored discount or a discount that is not above 0 the written
\* etsy_price is priceWithTax + platformFee undivided; with a discount above
\* 0 it is that sum divided by (1 - discount/100); the written etsy_fees is
\* priceWithTax * 0.095 + 0.20 in both cases and is the same for every
\* stored discount.
C16_DiscountOnlyWhenPositive ==
  \A r \in Runs :
    Computed(r) =>
      LET d == run[r].defaults[1]
          discount == IF d["etsyDiscount"] = null THEN Num(0)
                      ELSE parseFloat(d["etsyDiscount"][1])
          fee == Add(Mul(RefOf(r).priceWithTax, Rat(95, 1000)), Rat(1, 5))
      IN  /\ ~Gt(discount, Num(0)) =>
               Written(r, "etsy_price") = toFixed2(Undiscounted(r))
          /\ Gt(discount, Num(0)) =>
               Written(r, "etsy_price") =
                 toFixed2(Div(Undiscounted(r),
                              Add(Num(1), Mul(Num(-1), Div(discount, Num(100))))))
          /\ Written(r, "etsy_fees") = toFixed2(fee)
          /\ \A dv \in DiscountValues :
               BatchWith(r, [d EXCEPT !.etsyDiscount = dv])[3] =
                 run[r].metafieldsToSet[3]

\* a run with a stored discount of 10 wrote a price above the undiscounted
\* one and the fee of the undiscounted price
C16_Witness ==
  \E r \in Runs :
    /\ Computed(r)
    /\ NumericInputs(r)
    /\ run[r].defaults[1]["etsyDiscount"] = Some(Str10)
    /\ Written(r, "etsy_price") # toFixed2(Undiscounted(r))
    /\ run[r].applied = AllEntries(r)
    /\ Holds(run[r].metafieldsToSet)

\* C17: the multiplier of an update run is ooakMultiplier exactly when the
\* item's rarity is "ooak" in any mix of cases, and normalMultiplier for any
\* other, empty or absent rarity; the rarity label stored in the settings
\* changes nothing of what is written.
C17_RarityCaseInsensitive ==
  \A r \in Runs :
    Computed(r) =>
      LET d == run[r].defaults[1]
          rarity == run[r].metafields[1]["rarity"]
          multiplier == IF IsOoakLabel(rarity)
                          THEN RefField(d, "ooakMultiplier", Rat(2, 1))
                          ELSE RefField(d, "normalMultiplier", Rat(6, 5))
      IN  /\ CalcOf(r).rarityMultiplier = multiplier
          /\ Written(r, "market_price") =
               toFixed2(Mul(Mul(RefOf(r).total_cost, Rat(105, 100)), multiplier))
          /\ \A label \in CalcRarity :
               BatchWith(r, [d EXCEPT !.rarity = label]) = run[r].metafieldsToSet

\* a run for an item of rarity "Ooak" wrote with the stored ooakMultiplier,
\* which differs from the stored normalMultiplier
C17_Witness ==
  \E r \in Runs :
    /\ Computed(r)
    /\ NumericInputs(r)
    /\ run[r].metafields[1]["rarity"] = Some(StrOoakMixed)
    /\ run[r].defaults = Some(SettingsData(FormFull))
    /\ CalcOf(r).rarityMultiplier = Rat(3, 2)
    /\ run[r].applied = AllEntries(r)

\* the text of the fallback of each numeric settings field
FallbackText ==
  [etsyDiscount |-> <<"0">>, shipping |-> <<"0">>, vat |-> <<"0">>,
   etsyMarkupProfit |-> <<"0">>, hourlyRate |-> <<"0">>,
   normalMultiplier |-> <<"1", ".", "2">>, ooakMultiplier |-> <<"2">>]

\* C18: with settings present, what an update run writes is the reference
\* calculation with every stored field as stored, a stored zero included,
\* and with every absent field at its fallback: storing the fallback of an
\* absent field changes nothing of what is written.
C18_FieldsResolvedIndependently ==
  \A r \in Runs :
    Computed(r) =>
      LET d == run[r].defaults[1]
      IN  /\ \A k \in DerivedKeys : Written(r, k) = toFixed2(RefOf(r)[k])
          /\ \A f \in NumericFields :
               /\ d[f] = null =>
                    BatchWith(r, [d EXCEPT ![f] = Some(FallbackText[f])]) =
                      run[r].metafieldsToSet
               /\ d[f] = Some(<<"0">>) =>
                    BatchWith(r, [g \in ConfigFields |->
                                    IF g = f THEN Some(<<"0">>) ELSE
                                    IF g \in NumericFields /\ d[g] = null
                                      THEN Some(FallbackText[g]) ELSE d[g]]) =
                      run[r].metafieldsToSet

\* a run with only normalMultiplier stored, as zero, and every other field
\* absent wrote a market price of 0.00 for an item that has costs
C18_Witness ==
  \E r \in Runs :
    /\ Computed(r)
    /\ run[r].defaults[1]["normalMultiplier"] = Some(<<"0">>)
    /\ run[r].defaults[1]["hourlyRate"] = null
    /\ run[r].metafields[1]["material_costs"] = Some(Str10)
    /\ ~IsOoakLabel(run[r].metafields[1]["rarity"])
    /\ Written(r, "market_price") = <<"0", ".", "0", "0">>
    /\ Written(r, "total_cost") = <<"1", "0", ".", "0", "0">>
    /\ run[r].applied = AllEntries(r)


\* the calls of the update handler in the order of its code
UpdateOrder == <<"loadSession", "query", "findUnique", "metafieldsSet">>

\* the number of calls the run has made, a fault being no call
Made(r) ==
  LET n == Len(run[r].calls)
  IN  IF n > 0 /\ run[r].calls[n] = "fault" THEN n - 1 ELSE n

\* the calls of an update run follow the order of the handler, each after
\* the gate before it let the run through
InOrder(r) ==
  LET c == run[r].calls
      m == Made(r)
  IN  /\ m <= Len(UpdateOrder)
      /\ \A i \in 1..Len(c) :
           IF i <= m THEN c[i] = UpdateOrder[i] ELSE c[i] = "fault" /\ i = m + 1
      /\ run[r].pc # "done" => Len(c) = m /\ m < 4 /\ run[r].pc = UpdateOrder[m + 1]
      /\ m > 1 => sessionStorage[run[r].shop]
      /\ m > 2 =>
           /\ run[r].metafields # null
           /\ run[r].metafields[1]["material_costs"] # null
           /\ run[r].metafields[1]["hours_worked"] # null
      /\ m > 3 =>
           /\ run[r].defaults # null
           /\ Len(run[r].metafieldsToSet) = 4
      /\ run[r].responses = IF run[r].pc = "done" THEN <<200>> ELSE <<>>

\* one step of an update run makes the next call of the order, and either
\* goes on to the call after it or ends the run with the response
NextInOrder(r) ==
  /\ run[r].pc # "done"
  /\ Made(r) = Len(run[r].calls)
  /\ Len(run'[r].calls) \in {Len(run[r].calls) + 1, Len(run[r].calls) + 2}
  /\ \A i \in 1..Len(run[r].calls) : run'[r].calls[i] = run[r].calls[i]
  /\ run'[r].calls[Len(run[r].calls) + 1] = run[r].pc
  /\ \/ run'[r].pc = "done" /\ run'[r].responses = <<200>>
     \/ /\ Len(run[r].calls) < 3
        /\ Len(run'[r].calls) = Len(run[r].calls) + 1
        /\ run'[r].pc = UpdateOrder[Len(run[r].calls) + 2]

\* C19: an update run calls loadSession, query, findUnique and metafieldsSet
\* in this order: the query only after a session was found, findUnique only
\* after both cost inputs were found present, metafieldsSet only after the
\* settings were found and the batch computed; a run that stops early or
\* faults responds in that same step and takes no step after it.
C19_StepsInOrder ==
  /\ [](\A r \in UpdateRuns : InOrder(r))
  /\ [][\A r \in UpdateRuns :
          run'[r] # run[r] => NextInOrder(r)]_vars

\* one update run went through all four calls and responded, another one
\* stopped at the input gate after the query and responded
C19_Witness ==
  \E r, q \in UpdateRuns :
    /\ run[r].calls = UpdateOrder /\ run[r].pc = "done"
    /\ run[q].calls = <<"loadSession", "query">> /\ run[q].pc = "done"
    /\ run[q].metafields # null


\* the keys of the entries of the run's batch
BatchKeys(r) ==
  {run[r].metafieldsToSet[i].key : i \in 1..Len(run[r].metafieldsToSet)}

\* the keys of an update batch are derived keys, none of them a key the
\* update handler reads or a key of a create batch
WritesOnlyDerived ==
  \A u \in UpdateRuns :
    /\ BatchKeys(u) \subseteq DerivedKeys
    /\ BatchKeys(u) \cap InputKeys = {}
    /\ \A c \in CreateRuns : BatchKeys(u) \cap BatchKeys(c) = {}

\* a step of a run of either handler leaves the stored settings as they
\* are, and a step of an update run leaves every attribute other than the
\* four derived ones as it is on every item
HandlerFrame ==
  \A r \in Runs :
    run'[r] # run[r] =>
      /\ metafieldDefaults' = metafieldDefaults
      /\ run'[r].topic = "products/update" =>
           \A p \in Products : \A k \in Keys \ DerivedKeys :
             productMetafields'[p][k] = productMetafields[p][k]

\* C20: no step of either handler changes the stored settings; no step of
\* the update handler changes material_costs, hours_worked, rarity or any
\* other attribute besides total_cost, etsy_price, etsy_fees and
\* market_price; the keys of an update batch are disjoint from the keys the
\* update handler reads and from the keys of every create batch.
C20_HandlersLeaveInputsAndSettings ==
  /\ []WritesOnlyDerived
  /\ [][HandlerFrame]_vars

\* an update run and a create run have both written a batch in full, the
\* settings are still stored, and the item still has the cost inputs that
\* the update run read
C20_Witness ==
  \E u \in UpdateRuns, c \in CreateRuns :
    /\ Ended200(u) /\ Ended200(c)
    /\ Len(run[u].metafieldsToSet) = 4 /\ run[u].applied = AllEntries(u)
    /\ run[c].metafieldsToSet # <<>> /\ run[c].applied = AllEntries(c)
    /\ metafieldDefaults[run[u].shop] # null
    /\ \A k \in {"material_costs", "hours_worked"} :
         productMetafields[run[u].productId][k] = run[u].metafields[1][k]


\* the last step of the run ended in its catch block
FaultedNow(rec) == Len(rec.calls) > 0 /\ rec.calls[Len(rec.calls)] = "fault"

\* a step of the run r, handling a notification of shop T about item I,
\* looks at the session and the settings of T and at the attributes of I
\* only, and changes nothing but attributes of I
RunStepIsolated(r) ==
  LET T == run[r].shop
      I == run[r].productId
  IN  /\ run'[r].shop = T /\ run'[r].productId = I
      /\ \A q \in Runs \ {r} : run'[q] = run[q]
      /\ sessionStorage' = sessionStorage
      /\ metafieldDefaults' = metafieldDefaults
      /\ \A p \in DOMAIN productMetafields \ {I} :
           productMetafields'[p] = productMetafields[p]
      /\ (run[r].pc = "loadSession" /\ ~FaultedNow(run'[r])) =>
           (run'[r].pc = "done" <=> ~sessionStorage[T])
      /\ (run[r].pc = "query" /\ ~FaultedNow(run'[r])) =>
           run'[r].metafields \in {Some(productMetafields[I]), Some(NoMetafields)}
      /\ (run[r].pc = "findUnique" /\ ~FaultedNow(run'[r])) =>
           run'[r].defaults = metafieldDefaults[T]
      /\ run[r].pc = "metafieldsSet" =>
           \A i \in 1..Len(run[r].metafieldsToSet) :
             LET e == run[r].metafieldsToSet[i]
             IN  /\ e.ownerId = I
                 /\ productMetafields'[I][e.key] =
                      IF i \in run'[r].applied THEN Some(e.value)
                      ELSE productMetafields[I][e.key]

\* a change of the stored settings replaces the record of one shop by the
\* submitted form, a field left empty being absent, and changes nothing else
SaveIsolated ==
  \E T \in DOMAIN metafieldDefaults :
    /\ \A s \in DOMAIN metafieldDefaults \ {T} :
         metafieldDefaults'[s] = metafieldDefaults[s]
    /\ \E form \in Forms :
         metafieldDefaults'[T] =
           Some([f \in ConfigFields |->
                   IF form[f] = <<>> THEN null ELSE Some(form[f])])
    /\ run' = run
    /\ productMetafields' = productMetafields
    /\ sessionStorage' = sessionStorage

\* every entry of a batch is owned by the item of the run's notification
OwnsItsBatch ==
  \A r \in Runs :
    \A i \in 1..Len(run[r].metafieldsToSet) :
      run[r].metafieldsToSet[i].ownerId = run[r].productId

\* C21: a step of a run for shop T and item I depends on the session and the
\* settings of T and on the attributes of I alone and changes attributes of
\* I alone, with two shops, three items and two runs interleaved in any
\* order; saving the settings of T replaces the record of T as a whole, any
\* field not submitted becoming absent, and leaves the record of the other
\* shop, the items and the runs as they are.
C21_TenantAndItemIsolation ==
  /\ []OwnsItsBatch
  /\ [][/\ \A r \in Runs :
             (run[r].pc # "idle" /\ run'[r] # run[r]) => RunStepIsolated(r)
        /\ metafieldDefaults' # metafieldDefaults => SaveIsolated]_vars

\* an update run for item 1 of shop-a and an update run for item 3 of
\* shop-b have both written their batches in full from different settings,
\* one of which was saved meanwhile, and item 2 has no derived attribute
C21_Witness ==
  \E r, q \in UpdateRuns :
    /\ run[r].productId = 1 /\ run[q].productId = 3
    /\ Ended200(r) /\ Ended200(q)
    /\ Len(run[r].metafieldsToSet) = 4 /\ run[r].applied = AllEntries(r)
    /\ Len(run[q].metafieldsToSet) = 4 /\ run[q].applied = AllEntries(q)
    /\ run[r].defaults # run[q].defaults
    /\ edits > 0
    /\ \A k \in DerivedKeys :
         /\ productMetafields[2][k] = null
         /\ productMetafields[1][k] # null
         /\ productMetafields[3][k] # null

====
